---- MODULE Spec2Model ----
(***************************************************************************)
(* A model of sandbox-claude's session registry (session_store.py), of the *)
(* container runtime as the commands see it (container_manager.py) and of  *)
(* the commands that reconcile the two (cli.py).                           *)
(*                                                                         *)
(* A row of table sandboxes is a record with the columns of the schema,    *)
(* the surrogate key id left out: no statement of the program reads it.    *)
(* One unit of the clock is one day for the registry (CURRENT_TIMESTAMP is  *)
(* the clock's value when the statement runs) and one second for the       *)
(* timestamp of a generated name.                                          *)
(***************************************************************************)
EXTENDS Integers, Sequences, FiniteSets, TLC

VARIABLES store, runtime, now, last

vars == <<store, runtime, now, last>>

\* ------------------------------------------------------------------ bounds

\* The clock stops here.
MaxTime == 2

\* The longest document import_sessions is given.
MaxDoc == 2

\* The largest limit list_containers is given.
MaxLimit == 2

\* The longest of the short names the naming functions are given.
MaxName == 3

\* The most rows of the registries get_statistics is asked about.
MaxRows == 6

\* ------------------------------------------------------------- value sets

\* Python's None and SQL's NULL, for the text columns and arguments.
None == "None"

\* An optional integer, row or container: <<>> is None, <<v>> is the value v.
Nothing == << >>

Some(v) == <<v>>

\* Container ids, in the order the runtime hands them out.
IdOrder == <<"c1", "c2">>

Ids == {IdOrder[i] : i \in 1..Len(IdOrder)}

\* metadata arguments: Python dictionaries, the empty one and one with a key.
EmptyDict == "dict()"

Dict1 == "dict(k=1)"

\* JSON texts: of the two dictionaries, and of null.
EmptyDictText == "{}"

Dict1Text == "{\"k\": 1}"

\* A key a session of an import document does not have.
Absent == "Absent"

ProjectOf(n) == IF n = "n2" THEN "p2" ELSE "p1"

FeatureOf(n) == IF n = "n1" THEN "f1" ELSE "f2"

WorkingDirOf(n) == IF n = "n1" THEN "/w" ELSE None

ImageOf(n) == IF n = "n2" THEN None ELSE "img"

MetadataOf(n) == IF n = "n1" THEN Dict1 ELSE IF n = "n2" THEN EmptyDict ELSE None

\* The arguments of one add_container call.
Request(i, n) ==
    [container_id |-> i, container_name |-> n, project_name |-> ProjectOf(n),
     feature_name |-> FeatureOf(n), working_dir |-> WorkingDirOf(n),
     docker_image |-> ImageOf(n), metadata |-> MetadataOf(n)]

\* The add_container calls made on the registry directly.
AddRequests == {Request(i, n) : i \in Ids, n \in {"n1", "n2"}}

\* The sessions of import documents, by the columns import_sessions reads; the
\* value of key "metadata" is the column's text, null (what export_sessions
\* writes for a NULL column), or the key is not there.
ImportSessions ==
    {[Request("c1", "n1") EXCEPT !.metadata = Dict1Text],
     [Request("c2", "n1") EXCEPT !.metadata = Absent],
     [Request("c1", "n2") EXCEPT !.metadata = None]}

\* The documents import_sessions is given: lists of sessions.
ImportDocuments == UNION {[1..k -> ImportSessions] : k \in 0..MaxDoc}

\* Filter arguments of find_container and list_containers.
ProjectFilters == {None, "", "p1"}

FeatureFilters == {None, "f2"}

StatusFilters == {None, "running"}

\* status arguments of update_container_status.
StatusInputs == {"running", "stopped"}

\* ------------------------------------------------------------ the registry

\* Python truthiness of an Optional[str]: None and "" are false.
Truthy(x) == x # None /\ x # ""

\* Python truthiness of an Optional[int]: None and 0 are false.
TruthyInt(x) == x # Nothing /\ x[1] # 0

\* Python truthiness of an Optional[dict]: None and {} are false.
TruthyDict(x) == x # None /\ x # EmptyDict

\* json.dumps of a dictionary: its text.
JsonDumps(d) == IF d = EmptyDict THEN EmptyDictText ELSE Dict1Text

\* json.loads of a text: the dictionary (of None, a TypeError: see import_sessions).
JsonLoads(x) == IF x = EmptyDictText THEN EmptyDict ELSE Dict1

\* The row INSERT writes: status 'running', both timestamps the defaults.
NewRow(req, t) ==
    [container_id |-> req.container_id, container_name |-> req.container_name,
     project_name |-> req.project_name, feature_name |-> req.feature_name,
     working_dir |-> req.working_dir, docker_image |-> req.docker_image,
     metadata |-> IF TruthyDict(req.metadata) THEN JsonDumps(req.metadata) ELSE None,
     status |-> "running", created_at |-> t, last_accessed |-> t]

\* IntegrityError with container_name not declared UNIQUE.
IntegrityError_NameNotUnique(s, row) ==
    \/ \E r \in s : r.container_id = row.container_id
    \/ row.container_id = None
    \/ row.container_name = None
    \/ row.project_name = None
    \/ row.feature_name = None

\* The schema's constraints on a new row: UNIQUE and NOT NULL.
IntegrityError(s, row) ==
    \/ \E r \in s : r.container_id = row.container_id
    \/ \E r \in s : r.container_name = row.container_name
    \/ row.container_id = None
    \/ row.container_name = None
    \/ row.project_name = None
    \/ row.feature_name = None

add_container(s, req, t) ==
    IF IntegrityError(s, NewRow(req, t))
    THEN [store |-> s, ret |-> FALSE]
    ELSE [store |-> s \cup {NewRow(req, t)}, ret |-> TRUE]

get_container(s, id) ==
    IF \E r \in s : r.container_id = id
    THEN Some(CHOOSE r \in s : r.container_id = id)
    ELSE Nothing

\* The WHERE clause both queries build.
Matching(s, project, feature, status) ==
    {r \in s : /\ Truthy(project) => r.project_name = project
               /\ Truthy(feature) => r.feature_name = feature
               /\ Truthy(status) => r.status = status}

\* ORDER BY created_at DESC: every order of the rows SQLite may produce
\* (rows of equal created_at come in any order).
OrderByCreatedDesc(rows) ==
    {q \in [1..Cardinality(rows) -> rows] :
        /\ \A i, j \in 1..Cardinality(rows) : i # j => q[i] # q[j]
        /\ \A i, j \in 1..Cardinality(rows) : i < j => q[i].created_at >= q[j].created_at}

Min(a, b) == IF a < b THEN a ELSE b

\* find_container: the results the query may give, Nothing or Some(row).
find_container(s, project, feature, status) ==
    IF Matching(s, project, feature, status) = {}
    THEN {Nothing}
    ELSE {Some(q[1]) : q \in OrderByCreatedDesc(Matching(s, project, feature, status))}

\* list_containers: the lists the query may give.
list_containers(s, project, feature, status, limit) ==
    {IF TruthyInt(limit) THEN SubSeq(q, 1, Min(limit[1], Len(q))) ELSE q :
        q \in OrderByCreatedDesc(Matching(s, project, feature, status))}

\* update_container_status with last_accessed left out of the SET clause.
update_container_status_NoRefresh(s, id, status, t) ==
    [store |-> {IF r.container_id = id THEN [r EXCEPT !.status = status] ELSE r : r \in s},
     ret |-> \E r \in s : r.container_id = id]

update_container_status(s, id, status, t) ==
    [store |-> {IF r.container_id = id
                THEN [r EXCEPT !.status = status, !.last_accessed = t]
                ELSE r : r \in s},
     ret |-> \E r \in s : r.container_id = id]

\* update_last_accessed writing created_at as well.
update_last_accessed_AlsoCreated(s, id, t) ==
    [store |-> {IF r.container_id = id
                THEN [r EXCEPT !.last_accessed = t, !.created_at = t]
                ELSE r : r \in s},
     ret |-> \E r \in s : r.container_id = id]

update_last_accessed(s, id, t) ==
    [store |-> {IF r.container_id = id THEN [r EXCEPT !.last_accessed = t] ELSE r : r \in s},
     ret |-> \E r \in s : r.container_id = id]

\* remove_container returning True once the statement ran.
remove_container_AlwaysTrue(s, id) ==
    [store |-> {r \in s : r.container_id # id}, ret |-> TRUE]

remove_container(s, id) ==
    [store |-> {r \in s : r.container_id # id},
     ret |-> \E r \in s : r.container_id = id]

\* cleanup_old_records without the status != 'running' condition.
cleanup_old_records_AnyStatus(s, days, t) ==
    [store |-> {r \in s : ~(r.last_accessed < t - days)},
     ret |-> Cardinality({r \in s : r.last_accessed < t - days})]

cleanup_old_records(s, days, t) ==
    [store |-> {r \in s : ~(r.status # "running" /\ r.last_accessed < t - days)},
     ret |-> Cardinality({r \in s : r.status # "running" /\ r.last_accessed < t - days})]

\* The loop of import_sessions from session i on, imported sessions counted so
\* far; json.loads(None) raises TypeError, which the handler turns into 0.
RECURSIVE ImportFrom(_, _, _, _, _)
ImportFrom(s, doc, i, imported, t) ==
    IF i > Len(doc)
    THEN [store |-> s, ret |-> imported]
    ELSE IF doc[i].metadata = None
    THEN [store |-> s, ret |-> 0]
    ELSE LET metadata == JsonLoads(IF doc[i].metadata = Absent
                                   THEN EmptyDictText ELSE doc[i].metadata)
             r == add_container(s, [doc[i] EXCEPT !.metadata = metadata], t)
         IN  ImportFrom(r.store, doc, i + 1, imported + (IF r.ret THEN 1 ELSE 0), t)

import_sessions(s, doc, t) == ImportFrom(s, doc, 1, 0, t)

\* --------------------------------------------------- registry operations

Init ==
    /\ store = {}
    /\ runtime = [i \in Ids |-> Nothing]
    /\ now = 0
    /\ last = [op |-> "init"]

\* Time passes between two operations.
Tick ==
    /\ now < MaxTime
    /\ now' = now + 1
    /\ last' = [op |-> "tick"]
    /\ UNCHANGED <<store, runtime>>

Add(req) ==
    /\ store' = add_container(store, req, now).store
    /\ last' = [op |-> "add_container", container_id |-> req.container_id,
                container_name |-> req.container_name,
                ret |-> add_container(store, req, now).ret]
    /\ UNCHANGED <<runtime, now>>

Import(doc) ==
    /\ store' = import_sessions(store, doc, now).store
    /\ last' = [op |-> "import_sessions", doc |-> doc, ret |-> import_sessions(store, doc, now).ret]
    /\ UNCHANGED <<runtime, now>>

Get(id) ==
    /\ last' = [op |-> "get_container", container_id |-> id, ret |-> get_container(store, id)]
    /\ UNCHANGED <<store, runtime, now>>

Find(project, feature, status) ==
    /\ \E res \in find_container(store, project, feature, status) :
          last' = [op |-> "find_container", project |-> project, feature |-> feature,
                   status |-> status, ret |-> res]
    /\ UNCHANGED <<store, runtime, now>>

List(project, feature, status, limit) ==
    /\ \E res \in list_containers(store, project, feature, status, limit) :
          last' = [op |-> "list_containers", project |-> project, feature |-> feature,
                   status |-> status, limit |-> limit, ret |-> res]
    /\ UNCHANGED <<store, runtime, now>>

UpdateStatus(id, status) ==
    /\ store' = update_container_status(store, id, status, now).store
    /\ last' = [op |-> "update_container_status", container_id |-> id, status |-> status,
                ret |-> update_container_status(store, id, status, now).ret]
    /\ UNCHANGED <<runtime, now>>

TouchAccess(id) ==
    /\ store' = update_last_accessed(store, id, now).store
    /\ last' = [op |-> "update_last_accessed", container_id |-> id,
                ret |-> update_last_accessed(store, id, now).ret]
    /\ UNCHANGED <<runtime, now>>

Remove(id) ==
    /\ store' = remove_container(store, id).store
    /\ last' = [op |-> "remove_container", container_id |-> id,
                ret |-> remove_container(store, id).ret]
    /\ UNCHANGED <<runtime, now>>

Purge(days) ==
    /\ store' = cleanup_old_records(store, days, now).store
    /\ last' = [op |-> "cleanup_old_records", days |-> days,
                ret |-> cleanup_old_records(store, days, now).ret]
    /\ UNCHANGED <<runtime, now>>

LimitInputs == {Nothing} \cup {Some(n) : n \in 0..MaxLimit}

Next ==
    \/ Tick
    \/ \E req \in AddRequests : Add(req)
    \/ \E doc \in ImportDocuments : Import(doc)
    \/ \E id \in Ids, status \in StatusInputs : UpdateStatus(id, status)
    \/ \E id \in Ids : TouchAccess(id)
    \/ \E id \in Ids : Remove(id)
    \/ \E days \in 0..MaxTime : Purge(days)

Spec == Init /\ [][Next]_vars

\* The registry's queries, on the stores that adds and status updates build.
NextQuery ==
    \/ Tick
    \/ \E req \in AddRequests : Add(req)
    \/ \E id \in Ids, status \in StatusInputs : UpdateStatus(id, status)
    \/ \E p \in ProjectFilters, f \in FeatureFilters, s \in StatusFilters : Find(p, f, s)
    \/ \E p \in ProjectFilters, f \in FeatureFilters, s \in StatusFilters,
          limit \in LimitInputs : List(p, f, s, limit)

SpecQuery == Init /\ [][NextQuery]_vars

\* ------------------------------------------------------------- the runtime

\* The states Docker reports for a container that exists.
LiveStatuses == {"created", "running", "exited", "paused"}

Container(status, name) == Some([status |-> status, name |-> name])

\* get_container_status: NotFound gives "not_found", APIError gives "error".
get_container_status(rt, id, apiError) ==
    IF apiError THEN "error"
    ELSE IF rt[id] = Nothing THEN "not_found"
    ELSE rt[id][1].status

\* create_container handing out a handle also when Docker created nothing.
create_container_HandleAnyway(rt, id, name, apiError) ==
    IF apiError \/ \E i \in Ids : rt[i] # Nothing /\ rt[i][1].name = name
    THEN [runtime |-> rt, ret |-> id]
    ELSE [runtime |-> [rt EXCEPT ![id] = Container("created", name)], ret |-> id]

\* create_container: Docker refuses a name a container already has; the handle
\* is the new container's id, None after an APIError.
create_container(rt, id, name, apiError) ==
    IF apiError \/ \E i \in Ids : rt[i] # Nothing /\ rt[i][1].name = name
    THEN [runtime |-> rt, ret |-> None]
    ELSE [runtime |-> [rt EXCEPT ![id] = Container("created", name)], ret |-> id]

start_container(rt, id, apiError) ==
    IF apiError \/ rt[id] = Nothing
    THEN [runtime |-> rt, ret |-> FALSE]
    ELSE [runtime |-> [rt EXCEPT ![id] = Container("running", rt[id][1].name)],
          ret |-> TRUE]

\* stop_container: Docker stops a running or paused container and leaves one
\* that does not run as it is.
stop_container(rt, id, apiError) ==
    IF apiError \/ rt[id] = Nothing
    THEN [runtime |-> rt, ret |-> FALSE]
    ELSE [runtime |-> [rt EXCEPT ![id] =
                          Container(IF rt[id][1].status \in {"running", "paused"}
                                    THEN "exited" ELSE rt[id][1].status,
                                    rt[id][1].name)],
          ret |-> TRUE]

\* ContainerManager.remove_container.
manager_remove_container(rt, id, apiError) ==
    IF apiError \/ rt[id] = Nothing
    THEN [runtime |-> rt, ret |-> FALSE]
    ELSE [runtime |-> [rt EXCEPT ![id] = Nothing], ret |-> TRUE]

\* ------------------------------------------------------------ the commands

\* The characters of the names the commands are given.
Chars(name) ==
    CASE name = "p1" -> <<"p", "1">>
      [] name = "p2" -> <<"p", "2">>
      [] name = "f1" -> <<"f", "1">>
      [] name = "p 1" -> <<"p", " ", "1">>
      [] name = "" -> << >>
      [] name = "My Project" -> <<"M", "y", " ", "P", "r", "o", "j", "e", "c", "t">>
      [] name = "Feature #1" -> <<"F", "e", "a", "t", "u", "r", "e", " ", "#", "1">>

\* The string of a sequence of characters.
RECURSIVE Str(_)
Str(s) == IF s = << >> THEN "" ELSE Head(s) \o Str(Tail(s))

\* The letters and digits among the characters used here.
UpperLetters == {"A", "F", "M", "P"}

LowerLetters == {"a", "c", "e", "f", "j", "m", "o", "p", "r", "t", "u", "y"}

Digits == {"1", "2"}

\* The class [a-zA-Z0-9-_] among the characters used here.
NameClass == UpperLetters \cup LowerLetters \cup Digits \cup {"-", "_"}

\* str.lower on one character.
Lower(c) ==
    CASE c = "A" -> "a"
      [] c = "F" -> "f"
      [] c = "M" -> "m"
      [] c = "P" -> "p"
      [] OTHER -> c

\* re.match of ^[a-zA-Z0-9-_]+$: $ matches at the end and before a final newline.
validate_name(s) ==
    \E k \in {Len(s), Len(s) - 1} :
        /\ k >= 1
        /\ \A i \in 1..k : s[i] \in NameClass
        /\ k < Len(s) => s[Len(s)] = "\n"

\* re.sub(r"[^a-zA-Z0-9-_]", "-", name).
SubOutside(s) == [i \in 1..Len(s) |-> IF s[i] \in NameClass THEN s[i] ELSE "-"]

\* s without its leading run of c.
RECURSIVE DropRun(_, _)
DropRun(s, c) == IF s # << >> /\ Head(s) = c THEN DropRun(Tail(s), c) ELSE s

\* re.sub of c+ by "-": every maximal run of c becomes one hyphen.
RECURSIVE SubRuns(_, _)
SubRuns(s, c) ==
    IF s = << >>
    THEN << >>
    ELSE IF Head(s) = c
    THEN <<"-">> \o SubRuns(DropRun(s, c), c)
    ELSE <<Head(s)>> \o SubRuns(Tail(s), c)

\* s without its trailing run of c.
RECURSIVE DropRunRight(_, _)
DropRunRight(s, c) ==
    IF s # << >> /\ s[Len(s)] = c THEN DropRunRight(SubSeq(s, 1, Len(s) - 1), c) ELSE s

\* str.strip("-").
Strip(s) == DropRunRight(DropRun(s, "-"), "-")

\* The length sanitize_name truncates to.
MaxSanitized == 30

\* sanitized[:30] when longer.
Truncate(s) == IF Len(s) > MaxSanitized THEN SubSeq(s, 1, MaxSanitized) ELSE s

\* str.lower.
LowerAll(s) == [i \in 1..Len(s) |-> Lower(s[i])]

\* sanitize_name without the final lower().
sanitize_name_NoLower(s) ==
    Truncate(Strip(SubRuns(SubRuns(SubOutside(s), "_"), "-")))

sanitize_name(s) ==
    LowerAll(Truncate(Strip(SubRuns(SubRuns(SubOutside(s), "_"), "-"))))

\* The random suffixes a generated name may get, token_hex(2): two for p1, one
\* for the others.
SuffixesOf(project) == IF project = "p1" THEN {"a", "b"} ELSE {"a"}

\* generate_container_name at clock reading t with random suffix suffix.
generate_container_name(project, feature, t, suffix) ==
    "sandbox-claude-" \o Str(sanitize_name(Chars(project))) \o "-"
        \o Str(sanitize_name(Chars(feature))) \o "-" \o ToString(t) \o "-" \o suffix

Cwd == "/w"

DefaultImage == "sandbox-claude-base:latest"

Unused(id) == runtime[id] = Nothing /\ \A r \in store : r.container_id # id

\* The id Docker gives the next container.
FreshId ==
    IdOrder[CHOOSE i \in 1..Len(IdOrder) :
                Unused(IdOrder[i]) /\ \A j \in 1..(i - 1) : ~Unused(IdOrder[j])]

\* What new leaves behind: its arguments, its exit code, the container it
\* reused or created, the one it attached to, and the calls it made on the
\* registry and on the runtime.
NewResult(project, feature, exit, reused, created, attached, calls) ==
    [op |-> "new", project |-> project, feature |-> feature, exit |-> exit,
     reused |-> reused, created |-> created, attached |-> attached, calls |-> calls]

\* _validate_project_feature_names letting every name through.
ValidNames_Any(project, feature) == TRUE

\* _validate_project_feature_names: both names pass validate_name.
ValidNames(project, feature) ==
    validate_name(Chars(project)) /\ validate_name(Chars(feature))

\* _try_reuse_existing_container, when a row is found.
NewReuse(project, feature, detach) ==
    /\ \E found \in find_container(store, project, feature, "running") :
          /\ found # Nothing
          /\ last' = NewResult(project, feature, 0, found[1].container_id, None,
                               IF detach THEN None ELSE found[1].container_id,
                               {"find_container"} \cup
                                   (IF detach THEN {} ELSE {"attach_to_container"}))
    /\ UNCHANGED <<store, runtime, now>>

\* The step of new that the runtime fails, if any: no image to be had
\* (_ensure_image_available exits), create_container or start_container.
Failures == {"none", "image", "create", "start"}

\* The rest of new: the image, the mounts, the container, the row.
NewCreate(project, feature, reuse, detach, suffix, failure) ==
    LET name == generate_container_name(project, feature, now, suffix)
        created == create_container(runtime, FreshId, name, failure = "create")
        started == start_container(created.runtime, created.ret, failure = "start")
        lookup == IF reuse THEN {"find_container"} ELSE {}
    IN  /\ \E id \in Ids : Unused(id)
        /\ IF failure = "image"
           THEN /\ last' = NewResult(project, feature, 1, None, None, None,
                                     lookup \cup {"image_exists"})
                /\ UNCHANGED <<store, runtime>>
           ELSE IF created.ret = None
           THEN /\ last' = NewResult(project, feature, 1, None, None, None,
                                     lookup \cup {"image_exists", "prepare_mounts",
                                                  "create_container"})
                /\ UNCHANGED <<store, runtime>>
           ELSE /\ runtime' = started.runtime
                /\ store' = add_container(store,
                                [container_id |-> created.ret, container_name |-> name,
                                 project_name |-> project, feature_name |-> feature,
                                 working_dir |-> Cwd, docker_image |-> DefaultImage,
                                 metadata |-> None], now).store
                /\ last' = NewResult(project, feature, 0, None, created.ret,
                                     IF detach THEN None ELSE created.ret,
                                     lookup \cup {"image_exists", "prepare_mounts",
                                                  "create_container", "start_container",
                                                  "add_container"}
                                         \cup (IF detach THEN {}
                                               ELSE {"attach_to_container"}))
        /\ UNCHANGED now

CmdNew(project, feature, reuse, detach, suffix, failure) ==
    IF ~ValidNames(project, feature)
    THEN /\ last' = NewResult(project, feature, 1, None, None, None, {})
         /\ UNCHANGED <<store, runtime, now>>
    ELSE IF reuse /\ Nothing \notin find_container(store, project, feature, "running")
    THEN NewReuse(project, feature, detach)
    ELSE NewCreate(project, feature, reuse, detach, suffix, failure)

\* list's loop without the write to the store: the status only displayed.
RECURSIVE list_reconcile_DisplayOnly(_, _, _, _, _, _)
list_reconcile_DisplayOnly(s, containers, i, errors, rt, t) == s

\* list's loop deleting the rows whose container the runtime does not know.
RECURSIVE list_reconcile_DropNotFound(_, _, _, _, _, _)
list_reconcile_DropNotFound(s, containers, i, errors, rt, t) ==
    IF i > Len(containers)
    THEN s
    ELSE LET id == containers[i].container_id
             docker_status == get_container_status(rt, id, id \in errors)
         IN  list_reconcile_DropNotFound(
                 IF docker_status = "not_found"
                 THEN remove_container(s, id).store
                 ELSE IF docker_status # containers[i].status
                 THEN update_container_status(s, id, docker_status, t).store
                 ELSE s,
                 containers, i + 1, errors, rt, t)

\* The loop of list from row i on: the store it leaves.
RECURSIVE list_reconcile(_, _, _, _, _, _)
list_reconcile(s, containers, i, errors, rt, t) ==
    IF i > Len(containers)
    THEN s
    ELSE LET id == containers[i].container_id
             docker_status == get_container_status(rt, id, id \in errors)
         IN  list_reconcile(IF docker_status # containers[i].status
                            THEN update_container_status(s, id, docker_status, t).store
                            ELSE s,
                            containers, i + 1, errors, rt, t)

\* The rows of the table list prints, with the status the runtime reported.
ListShown(containers, errors, rt) ==
    [i \in 1..Len(containers) |->
        LET id == containers[i].container_id
            docker_status == get_container_status(rt, id, id \in errors)
        IN  [container_id |-> id,
             status |-> IF docker_status # containers[i].status
                        THEN docker_status ELSE containers[i].status,
             live |-> docker_status]]

CmdList(project, feature, active, all, errors) ==
    /\ \E containers \in list_containers(store, project, feature,
                             IF active /\ ~all THEN "running" ELSE None, Nothing) :
          /\ store' = list_reconcile(store, containers, 1, errors, runtime, now)
          /\ last' = [op |-> "list", shown |-> ListShown(containers, errors, runtime)]
    /\ UNCHANGED <<runtime, now>>

\* The container ssh picks: the ids it may find, None when it finds none.
SshLookup(container_ref, project, feature, latest) ==
    IF Truthy(container_ref)
    THEN {container_ref}
    ELSE IF latest
    THEN {IF q = << >> THEN None ELSE q[1].container_id :
             q \in list_containers(store, None, None, "running", Some(1))}
    ELSE IF Truthy(project) \/ Truthy(feature)
    THEN {IF f = Nothing THEN None ELSE f[1].container_id :
             f \in find_container(store, project, feature, "running")}
    ELSE {None}

CmdSsh(container_ref, project, feature, latest) ==
    /\ \E id \in SshLookup(container_ref, project, feature, latest) :
          last' = [op |-> "ssh", exit |-> IF id = None THEN 1 ELSE 0, attached |-> id,
                   by_ref |-> Truthy(container_ref)]
    /\ UNCHANGED <<store, runtime, now>>

\* The loop of stop from id i on: the store and the runtime it leaves, and the
\* ids whose stop_container returned False.
RECURSIVE StopFrom(_, _, _, _, _, _, _)
StopFrom(s, rt, ids, i, errors, failed, t) ==
    IF i > Len(ids)
    THEN [store |-> s, runtime |-> rt, failed |-> failed]
    ELSE LET stopped == stop_container(rt, ids[i], ids[i] \in errors)
         IN  StopFrom(update_container_status(s, ids[i], "stopped", t).store,
                      stopped.runtime, ids, i + 1, errors,
                      IF stopped.ret THEN failed ELSE failed \cup {ids[i]}, t)

\* containers_to_stop: the lists of ids stop may build.
StopTargets(container_ref, project, all) ==
    IF all
    THEN {[i \in 1..Len(q) |-> q[i].container_id] :
             q \in list_containers(store, None, None, "running", Nothing)}
    ELSE IF Truthy(project)
    THEN {[i \in 1..Len(q) |-> q[i].container_id] :
             q \in list_containers(store, project, None, "running", Nothing)}
    ELSE {<<container_ref>>}

CmdStop(container_ref, project, all, errors) ==
    IF ~all /\ ~Truthy(project) /\ ~Truthy(container_ref)
    THEN /\ last' = [op |-> "stop", exit |-> 1]
         /\ UNCHANGED <<store, runtime, now>>
    ELSE /\ \E ids \in StopTargets(container_ref, project, all) :
              LET done == StopFrom(store, runtime, ids, 1, errors, {}, now)
              IN  /\ store' = done.store
                  /\ runtime' = done.runtime
                  /\ last' = [op |-> "stop", exit |-> 0,
                              bulk |-> all \/ Truthy(project),
                              targets |-> {ids[i] : i \in 1..Len(ids)},
                              failed |-> done.failed,
                              reported |-> Len(ids)]
         /\ UNCHANGED now

\* _sync_container_statuses from row i on: the store it leaves.
RECURSIVE sync_container_statuses(_, _, _, _, _, _)
sync_container_statuses(s, containers, i, errors, rt, t) ==
    IF i > Len(containers)
    THEN s
    ELSE LET id == containers[i].container_id
             docker_status == get_container_status(rt, id, id \in errors)
         IN  sync_container_statuses(
                 IF docker_status # containers[i].status
                 THEN update_container_status(s, id, docker_status, t).store
                 ELSE s,
                 containers, i + 1, errors, rt, t)

RemovableStatuses == {"stopped", "exited", "not_found", "error"}

\* The list comprehension of _get_containers_to_remove.
RECURSIVE SelectRemovable(_)
SelectRemovable(containers) ==
    IF containers = << >>
    THEN << >>
    ELSE IF Head(containers).status \in RemovableStatuses
    THEN <<Head(containers)>> \o SelectRemovable(Tail(containers))
    ELSE SelectRemovable(Tail(containers))

\* The loop of _remove_containers deleting a row only when the runtime removed
\* the container.
RECURSIVE RemoveFrom_IfRuntimeRemoved(_, _, _, _, _)
RemoveFrom_IfRuntimeRemoved(s, rt, containers, i, errors) ==
    IF i > Len(containers)
    THEN [store |-> s, runtime |-> rt]
    ELSE LET id == containers[i].container_id
             removed == manager_remove_container(rt, id, id \in errors)
         IN  RemoveFrom_IfRuntimeRemoved(
                 IF removed.ret THEN remove_container(s, id).store ELSE s,
                 removed.runtime, containers, i + 1, errors)

\* The loop of _remove_containers from row i on.
RECURSIVE RemoveFrom(_, _, _, _, _)
RemoveFrom(s, rt, containers, i, errors) ==
    IF i > Len(containers)
    THEN [store |-> s, runtime |-> rt]
    ELSE LET id == containers[i].container_id
         IN  RemoveFrom(remove_container(s, id).store,
                        IF containers[i].status # "not_found"
                        THEN manager_remove_container(rt, id, id \in errors).runtime
                        ELSE rt,
                        containers, i + 1, errors)

\* clean going on to the removal although nobody agreed to it.
Proceed_Always(args) == TRUE

\* clean goes on to the removal: --force, or the user's yes to Continue?.
Proceed(args) == args.force \/ args.confirm

CleanResult(args, exit, asked, removed) ==
    [op |-> "clean", args |-> args, exit |-> exit, asked |-> asked, removed |-> removed]

\* clean after the status sync left store synced; args are the command's
\* inputs, errors the ids whose runtime removal fails.
CleanSynced(synced, args, errors) ==
    IF ~args.all /\ ~Truthy(args.project)
    THEN /\ store' = synced
         /\ last' = CleanResult(args, 1, FALSE, {})
         /\ UNCHANGED runtime
    ELSE \E listed \in list_containers(synced, IF args.all THEN None ELSE args.project,
                                       None, None, Nothing) :
            LET containers == SelectRemovable(listed)
                done == RemoveFrom(synced, runtime, containers, 1, errors)
            IN  IF containers = << >>
                THEN /\ store' = synced
                     /\ last' = CleanResult(args, 0, FALSE, {})
                     /\ UNCHANGED runtime
                ELSE IF ~Proceed(args)
                THEN /\ store' = synced
                     /\ last' = CleanResult(args, 0, TRUE, {})
                     /\ UNCHANGED runtime
                ELSE /\ store' = done.store
                     /\ runtime' = done.runtime
                     /\ last' = CleanResult(args, 0, ~args.force,
                            {containers[i].container_id : i \in 1..Len(containers)})

CmdClean(project, all, force, confirm, syncErrors, removeErrors) ==
    /\ \E rows \in list_containers(store, IF all THEN None ELSE project,
                                  None, None, Nothing) :
          CleanSynced(sync_container_statuses(store, rows, 1, syncErrors, runtime, now),
                      [project |-> project, all |-> all, force |-> force,
                       confirm |-> confirm, syncErrors |-> syncErrors,
                       removeErrors |-> removeErrors],
                      removeErrors)
    /\ UNCHANGED now

\* What happens to a container outside the commands.
EnvExit(id) ==
    /\ runtime[id] # Nothing
    /\ runtime[id][1].status = "running"
    /\ runtime' = [runtime EXCEPT ![id] = Container("exited", runtime[id][1].name)]
    /\ last' = [op |-> "env"]
    /\ UNCHANGED <<store, now>>

EnvPause(id) ==
    /\ runtime[id] # Nothing
    /\ runtime[id][1].status = "running"
    /\ runtime' = [runtime EXCEPT ![id] = Container("paused", runtime[id][1].name)]
    /\ last' = [op |-> "env"]
    /\ UNCHANGED <<store, now>>

EnvRemove(id) ==
    /\ runtime[id] # Nothing
    /\ runtime' = [runtime EXCEPT ![id] = Nothing]
    /\ last' = [op |-> "env"]
    /\ UNCHANGED <<store, now>>

CliProjects == {"p1", "p2", "p 1"}

CliFeatures == {"f1"}

NextCli ==
    \/ \E project \in CliProjects, feature \in CliFeatures, reuse, detach \in BOOLEAN,
          failure \in Failures :
          \E suffix \in SuffixesOf(project) :
              CmdNew(project, feature, reuse, detach, suffix, failure)
    \/ \E project \in {None, "p1"}, feature \in {None}, active, all \in BOOLEAN,
          errors \in SUBSET Ids : CmdList(project, feature, active, all, errors)
    \/ \E container_ref \in {None} \cup Ids, project \in {None, "p1"},
          feature \in {None, "f1"}, latest \in BOOLEAN :
          CmdSsh(container_ref, project, feature, latest)
    \/ \E container_ref \in {None} \cup Ids, project \in {None, "p1"}, all \in BOOLEAN,
          errors \in SUBSET Ids : CmdStop(container_ref, project, all, errors)
    \/ \E id \in Ids : EnvExit(id)
    \/ \E id \in Ids : EnvPause(id)
    \/ \E id \in Ids : EnvRemove(id)

SpecCli == Init /\ [][NextCli]_vars

\* The ids for which a call fails during one command: at most one.
ErrorSets == {{}} \cup {{id} : id \in Ids}

\* update_container_status when the storage may fail: sqlite3.Error is caught
\* and the call returns False, the rows as they were.
update_container_status_io(s, id, status, t, storageError) ==
    IF storageError
    THEN [store |-> s, ret |-> FALSE]
    ELSE update_container_status(s, id, status, t)

\* The loop of list from row i on when the writes of the rows in storageErrors
\* fail: the store it leaves.
RECURSIVE list_reconcile_io(_, _, _, _, _, _, _)
list_reconcile_io(s, containers, i, errors, storageErrors, rt, t) ==
    IF i > Len(containers)
    THEN s
    ELSE LET id == containers[i].container_id
             docker_status == get_container_status(rt, id, id \in errors)
         IN  list_reconcile_io(
                 IF docker_status # containers[i].status
                 THEN update_container_status_io(s, id, docker_status, t,
                                                 id \in storageErrors).store
                 ELSE s,
                 containers, i + 1, errors, storageErrors, rt, t)

\* list when the runtime fails for the ids in errors and the storage fails on
\* the writes of the ids in storageErrors.
CmdListFaults(project, active, all, errors, storageErrors) ==
    /\ \E containers \in list_containers(store, project, None,
                             IF active /\ ~all THEN "running" ELSE None, Nothing) :
          /\ store' = list_reconcile_io(store, containers, 1, errors, storageErrors,
                                        runtime, now)
          /\ last' = [op |-> "list", shown |-> ListShown(containers, errors, runtime),
                      errors |-> errors, storageErrors |-> storageErrors]
    /\ UNCHANGED <<runtime, now>>

\* list under failures, on the containers that new creates and the runtime
\* changes.
NextListFaults ==
    \/ \E project \in {"p1", "p2"}, feature \in CliFeatures, failure \in {"none", "start"} :
          CmdNew(project, feature, FALSE, TRUE, "a", failure)
    \/ \E project \in {None, "p1"}, active, all \in BOOLEAN,
          errors, storageErrors \in ErrorSets :
          CmdListFaults(project, active, all, errors, storageErrors)
    \/ \E id \in Ids : EnvExit(id)
    \/ \E id \in Ids : EnvPause(id)
    \/ \E id \in Ids : EnvRemove(id)

SpecListFaults == Init /\ [][NextListFaults]_vars

\* new, on the containers it created and the runtime changed since.
NextNew ==
    \/ \E project \in CliProjects, feature \in CliFeatures, reuse, detach \in BOOLEAN,
          failure \in Failures :
          \E suffix \in SuffixesOf(project) :
              CmdNew(project, feature, reuse, detach, suffix, failure)
    \/ \E id \in Ids : EnvExit(id)
    \/ \E id \in Ids : EnvPause(id)
    \/ \E id \in Ids : EnvRemove(id)

SpecNew == Init /\ [][NextNew]_vars

\* clean, on the containers that new creates and the runtime changes.
NextClean ==
    \/ \E project \in {"p1", "p2"}, feature \in CliFeatures, failure \in {"none", "start"} :
          CmdNew(project, feature, FALSE, TRUE, "a", failure)
    \/ \E project \in {None, "p1"}, all, force \in BOOLEAN,
          syncErrors, removeErrors \in ErrorSets :
          \E confirm \in (IF force THEN {FALSE} ELSE BOOLEAN) :
              CmdClean(project, all, force, confirm, syncErrors, removeErrors)
    \/ \E id \in Ids : EnvExit(id)
    \/ \E id \in Ids : EnvPause(id)
    \/ \E id \in Ids : EnvRemove(id)

SpecClean == Init /\ [][NextClean]_vars

\* list and clean on one registry: the two commands that walk the rows and
\* write the live statuses.
NextReconcile ==
    \/ \E project \in {"p1", "p2"}, feature \in CliFeatures :
          CmdNew(project, feature, FALSE, TRUE, "a", "none")
    \/ \E project \in {None, "p1"}, all, force \in BOOLEAN, syncErrors \in ErrorSets :
          \E confirm \in (IF force THEN {FALSE} ELSE BOOLEAN) :
              CmdClean(project, all, force, confirm, syncErrors, {})
    \/ \E id \in Ids : EnvExit(id)
    \/ \E id \in Ids : EnvPause(id)
    \/ \E id \in Ids : EnvRemove(id)
    \/ \E project \in {None, "p1"}, active \in BOOLEAN, errors \in ErrorSets :
          CmdList(project, None, active, FALSE, errors)

SpecReconcile == Init /\ [][NextReconcile]_vars

\* ------------------------------------------- the registry on a failing store

\* update_last_accessed, remove_container and cleanup_old_records when the
\* storage may fail: sqlite3.Error is caught, the call returns False (or 0) and
\* the rows are as they were.
update_last_accessed_io(s, id, t, storageError) ==
    IF storageError THEN [store |-> s, ret |-> FALSE] ELSE update_last_accessed(s, id, t)

remove_container_io(s, id, storageError) ==
    IF storageError THEN [store |-> s, ret |-> FALSE] ELSE remove_container(s, id)

cleanup_old_records_io(s, days, t, storageError) ==
    IF storageError THEN [store |-> s, ret |-> 0] ELSE cleanup_old_records(s, days, t)

\* What a call on the registry leaves behind: failed tells whether the storage
\* failed during the call, raised whether an error reached the caller (never:
\* each method returns from its except clause).
StorageResult(op, failed, ret) ==
    [op |-> op, failed |-> failed, ret |-> ret, raised |-> FALSE]

UpdateStatusIo(id, status, storageError) ==
    /\ store' = update_container_status_io(store, id, status, now, storageError).store
    /\ last' = StorageResult("update_container_status", storageError,
                   update_container_status_io(store, id, status, now, storageError).ret)
    /\ UNCHANGED <<runtime, now>>

TouchAccessIo(id, storageError) ==
    /\ store' = update_last_accessed_io(store, id, now, storageError).store
    /\ last' = StorageResult("update_last_accessed", storageError,
                   update_last_accessed_io(store, id, now, storageError).ret)
    /\ UNCHANGED <<runtime, now>>

RemoveIo(id, storageError) ==
    /\ store' = remove_container_io(store, id, storageError).store
    /\ last' = StorageResult("remove_container", storageError,
                   remove_container_io(store, id, storageError).ret)
    /\ UNCHANGED <<runtime, now>>

PurgeIo(days, storageError) ==
    /\ store' = cleanup_old_records_io(store, days, now, storageError).store
    /\ last' = StorageResult("cleanup_old_records", storageError,
                   cleanup_old_records_io(store, days, now, storageError).ret)
    /\ UNCHANGED <<runtime, now>>

NextStorage ==
    \/ Tick
    \/ \E req \in AddRequests : Add(req)
    \/ \E id \in Ids, status \in StatusInputs, storageError \in BOOLEAN :
          UpdateStatusIo(id, status, storageError)
    \/ \E id \in Ids, storageError \in BOOLEAN : TouchAccessIo(id, storageError)
    \/ \E id \in Ids, storageError \in BOOLEAN : RemoveIo(id, storageError)
    \/ \E days \in 0..MaxTime, storageError \in BOOLEAN : PurgeIo(days, storageError)

SpecStorage == Init /\ [][NextStorage]_vars

\* ------------------------------------------------------------- the mounts

\* Paths on the host: the home directory's configuration and credential files,
\* and directories `new` may be run from.
ClaudeConfig == "~/.claude"

ClaudeJson == "~/.claude.json"

ClaudeCredsOld == "~/.claude_creds.json"

ClaudeCredsNew == "~/.claude/.credentials.json"

HostConfigFiles == {ClaudeConfig, ClaudeJson, ClaudeCredsNew, ClaudeCredsOld}

\* The files that exist on the host: .credentials.json lies inside ~/.claude.
HostFiles == {fs \in SUBSET HostConfigFiles : ClaudeCredsNew \in fs => ClaudeConfig \in fs}

\* The directories os.getcwd() may return: any directory of the host.
WorkingDirs(fs) == {"/work", "~"} \cup (fs \cap {ClaudeConfig})

\* get_git_worktree_info and the check of the main .git directory: not a
\* worktree, a worktree whose main directory is there, or one where it is not.
Worktrees == {"none", "accessible", "missing"}

\* mounts[name] = {...}: a key holds one configuration.
Put(mounts, m) == {x \in mounts : x.name # m.name} \cup {m}

\* One mount configuration; read_only is <<>> when the key is not set.
MountConfig(name, source, target, read_only) ==
    [name |-> name, source |-> source, target |-> target, type |-> "bind",
     read_only |-> read_only]

\* config.get("read_only", False) in create_container.
ReadOnly(m) == m.read_only = Some(TRUE)

add_workspace_mount(mounts, cwd) ==
    Put(mounts, MountConfig("workspace", cwd, "/workspace", Nothing))

add_git_worktree_mount(mounts, worktree) ==
    IF worktree = "accessible"
    THEN Put(mounts, MountConfig("main_git", "/repo/.git", "/workspace/.git_main", Some(TRUE)))
    ELSE mounts

add_claude_config_mounts(mounts, fs) ==
    LET m0 == Put(mounts, MountConfig("shared_config", "/tmp/csandbox/.claude",
                                      "/host-claude-config", Some(FALSE)))
        m1 == IF ClaudeConfig \in fs
              THEN Put(m0, MountConfig("claude_config", ClaudeConfig,
                                       "/tmp/.claude.host", Some(TRUE)))
              ELSE m0
        m2 == IF ClaudeJson \in fs
              THEN Put(m1, MountConfig("claude_json", ClaudeJson,
                                       "/tmp/.claude.json.host", Some(TRUE)))
              ELSE m1
    IN  IF ClaudeCredsNew \in fs
        THEN Put(m2, MountConfig("claude_creds", ClaudeCredsNew,
                                 "/tmp/.claude_creds.json.host", Some(TRUE)))
        ELSE IF ClaudeCredsOld \in fs
        THEN Put(m2, MountConfig("claude_creds", ClaudeCredsOld,
                                 "/tmp/.claude_creds.json.host", Some(TRUE)))
        ELSE m2

prepare_mounts(cwd, worktree, fs, no_mount_config) ==
    LET m1 == add_workspace_mount({}, cwd)
        m2 == add_git_worktree_mount(m1, worktree)
    IN  IF ~no_mount_config THEN add_claude_config_mounts(m2, fs) ELSE m2

\* `new` prepares the mounts of the container it is about to create.
PrepareMounts(cwd, worktree, fs, no_mount_config) ==
    /\ last' = [op |-> "prepare_mounts", cwd |-> cwd, worktree |-> worktree,
                files |-> fs, no_mount_config |-> no_mount_config,
                ret |-> prepare_mounts(cwd, worktree, fs, no_mount_config)]
    /\ UNCHANGED <<store, runtime, now>>

NextMounts ==
    \E fs \in HostFiles, worktree \in Worktrees, no_mount_config \in BOOLEAN :
        \E cwd \in WorkingDirs(fs) : PrepareMounts(cwd, worktree, fs, no_mount_config)

SpecMounts == Init /\ [][NextMounts]_vars

\* ------------------------------------------------------ export and import

\* export_sessions: the documents it may write, the rows of list_containers()
\* with every column, a NULL column as null.
export_sessions(s) == list_containers(s, None, None, None, Nothing)

Export ==
    /\ \E doc \in export_sessions(store) :
          last' = [op |-> "export_sessions", doc |-> doc, ret |-> TRUE]
    /\ UNCHANGED <<store, runtime, now>>

\* The exported document imported by a SessionStore on a new, empty database:
\* into is that store after import_sessions.
ImportExported ==
    /\ last.op = "export_sessions"
    /\ last' = [op |-> "import_exported", doc |-> last.doc,
                into |-> import_sessions({}, last.doc, now).store,
                ret |-> import_sessions({}, last.doc, now).ret]
    /\ UNCHANGED <<store, runtime, now>>

NextRoundTrip ==
    \/ Tick
    \/ \E req \in AddRequests : Add(req)
    \/ \E id \in Ids, status \in StatusInputs : UpdateStatus(id, status)
    \/ Export
    \/ ImportExported

SpecRoundTrip == Init /\ [][NextRoundTrip]_vars

\* ---------------------------------------------------------- the statistics

\* LIMIT 5 of the query for the recently accessed rows.
RecentLimit == 5

\* The first n rows of rows in an order ORDER BY last_accessed DESC may give
\* (rows of equal last_accessed come in any order), as (name, last_accessed).
RECURSIVE RecentlyAccessed(_, _)
RecentlyAccessed(rows, n) ==
    IF n = 0 \/ rows = {}
    THEN {<< >>}
    ELSE UNION {{<< <<r.container_name, r.last_accessed>> >> \o q :
                    q \in RecentlyAccessed(rows \ {r}, n - 1)} :
                r \in {x \in rows : \A y \in rows : x.last_accessed >= y.last_accessed}}

\* GROUP BY project_name with COUNT(*): one (project, count) per project.
GroupByProject(s) ==
    {<<p, Cardinality({r \in s : r.project_name = p})>> : p \in {r.project_name : r \in s}}

\* ORDER BY count DESC: the orders the groups may come in.
OrderByCountDesc(groups) ==
    {q \in [1..Cardinality(groups) -> groups] :
        /\ \A i, j \in 1..Cardinality(groups) : i # j => q[i] # q[j]
        /\ \A i, j \in 1..Cardinality(groups) : i < j => q[i][2] >= q[j][2]}

\* get_statistics with the last query not limited.
get_statistics_Unlimited(s) ==
    {[total |-> Cardinality(s),
      running |-> Cardinality({r \in s : r.status = "running"}),
      by_project |-> by_project,
      recent |-> recent] :
        by_project \in OrderByCountDesc(GroupByProject(s)),
        recent \in RecentlyAccessed(s, Cardinality(s))}

\* get_statistics: the results its four queries may give.
get_statistics(s) ==
    {[total |-> Cardinality(s),
      running |-> Cardinality({r \in s : r.status = "running"}),
      by_project |-> by_project,
      recent |-> recent] :
        by_project \in OrderByCountDesc(GroupByProject(s)),
        recent \in RecentlyAccessed(s, RecentLimit)}

\* Row i of the registries the statistics are taken of: added at time 0 by
\* add_container and last written (touched, or set to stopped) at time accessed.
StatProject(i) == IF i % 4 = 0 THEN "p3" ELSE IF i % 2 = 0 THEN "p2" ELSE "p1"

StatRequest(i) ==
    [container_id |-> "s" \o ToString(i), container_name |-> "m" \o ToString(i),
     project_name |-> StatProject(i), feature_name |-> "f1", working_dir |-> "/w",
     docker_image |-> "img", metadata |-> EmptyDict]

StatRow(i, running, accessed) ==
    IF running
    THEN [NewRow(StatRequest(i), 0) EXCEPT !.last_accessed = accessed]
    ELSE [NewRow(StatRequest(i), 0) EXCEPT !.status = "stopped", !.last_accessed = accessed]

\* Registries of n rows, the first k of them running, accessed at times 0..1.
StatStores ==
    UNION {{{StatRow(i, i <= k, accessed[i]) : i \in 1..n} :
               accessed \in [1..n -> 0..1], k \in 0..n} : n \in 0..MaxRows}

InitStats ==
    /\ store \in StatStores
    /\ runtime = [i \in Ids |-> Nothing]
    /\ now = 1
    /\ last = [op |-> "input"]

Statistics ==
    /\ last.op = "input"
    /\ \E res \in get_statistics(store) : last' = [op |-> "get_statistics", ret |-> res]
    /\ UNCHANGED <<store, runtime, now>>

NextStats == Statistics

SpecStats == InitStats /\ [][NextStats]_vars

\* ------------------------------------------------- the naming functions

\* The characters of the names the naming functions are given.
InputAlphabet == {"a", "A", "1", "-", "_", " ", "\n"}

ShortNames == UNION {[1..k -> InputAlphabet] : k \in 0..MaxName}

\* Names about as long as sanitize_name's limit: a's, with a short name after
\* them and possibly a character before them.
LongNames ==
    {pre \o [i \in 1..n |-> "a"] \o post :
        pre \in {<< >>, <<"-">>, <<"A">>},
        n \in (MaxSanitized - 2)..MaxSanitized,
        post \in {s \in ShortNames : Len(s) < MaxName}}

NameInputs == ShortNames \cup LongNames

\* A name is handed to one of the naming functions.
InitNames ==
    /\ store = {}
    /\ runtime = [i \in Ids |-> Nothing]
    /\ now = 0
    /\ last \in {[op |-> "input", name |-> s] : s \in NameInputs}

Validate ==
    /\ last.op = "input"
    /\ last' = [op |-> "validate_name", name |-> last.name,
                ret |-> validate_name(last.name)]
    /\ UNCHANGED <<store, runtime, now>>

Sanitize ==
    /\ last.op = "input"
    /\ last' = [op |-> "sanitize_name", name |-> last.name,
                ret |-> sanitize_name(last.name)]
    /\ UNCHANGED <<store, runtime, now>>

\* generate_container_name; prev is the name the call before returned, when
\* the step before was such a call.
Generate(project, feature, suffix) ==
    /\ last' = [op |-> "generate_container_name", project |-> project,
                feature |-> feature,
                ret |-> generate_container_name(project, feature, now, suffix),
                prev |-> IF last.op = "generate_container_name"
                         THEN Some(last.ret) ELSE Nothing]
    /\ UNCHANGED <<store, runtime, now>>

\* The naming functions; here one unit of the clock is one second, the
\* resolution of the timestamp in a generated name.
NextNames ==
    \/ Tick
    \/ Validate
    \/ Sanitize
    \/ \E project \in {"p1", "My Project"}, feature \in {"f1", "Feature #1"} :
          \E suffix \in SuffixesOf(project) : Generate(project, feature, suffix)

SpecNames == InitNames /\ [][NextNames]_vars

\* ------------------------------------------------------------ the claims

HasId(s, id) == \E r \in s : r.container_id = id

HasName(s, n) == \E r \in s : r.container_name = n

UniqueKeys ==
    \A r, q \in store :
        (r.container_id = q.container_id \/ r.container_name = q.container_name) => r = q

AddCollisionRejected ==
    (last'.op = "add_container" /\ (HasId(store, last'.container_id)
                           \/ HasName(store, last'.container_name)))
        => (last'.ret = FALSE /\ store' = store)

\* C1: whatever operations ran, no two rows share container_id and no two share
\* container_name, and an add colliding on either key with an existing row
\* returns False and leaves every row as it was.
C1_Uniqueness == []UniqueKeys /\ [][AddCollisionRejected]_vars

\* An add was rejected for its name alone: another id holds the name.
C1_Witness ==
    /\ last.op = "add_container"
    /\ last.ret = FALSE
    /\ ~HasId(store, last.container_id)
    /\ \E r \in store : r.container_name = last.container_name

StoredStatus(id) == get_container(store, id)[1].status

Reconciled(id) ==
    /\ get_container_status(runtime, id, FALSE) = "running"
    /\ get_container(store, id) # Nothing
    /\ StoredStatus(id) = get_container_status(runtime, id, FALSE)

\* C3: a row picked by a lookup (new --reuse, ssh --project/--feature,
\* ssh --latest) is checked against the runtime before it is used: what is
\* reused or attached to is running, and its stored status is what the runtime
\* reports.
C3_LookupReconciles ==
    /\ (last.op = "new" /\ last.reused # None) => Reconciled(last.reused)
    /\ (last.op = "ssh" /\ ~last.by_ref /\ last.attached # None)
           => Reconciled(last.attached)

StopEffect ==
    (last'.op = "stop" /\ last'.exit = 0 /\ last'.bulk) =>
        /\ \A r \in store' :
              (r.container_id \in last'.targets \ last'.failed) => r.status = "stopped"
        /\ \A r \in store :
              (r.container_id \in last'.failed /\ r.status # "stopped") =>
                  get_container(store', r.container_id)[1].status # "stopped"
        /\ last'.reported = Cardinality(last'.targets \ last'.failed)

\* C4: in a bulk stop where the runtime fails to stop some container, the others
\* end as stopped in the registry, the failed one is not set to stopped, and
\* the count reported is the count of the containers that were stopped.
C4_BulkStop == [][StopEffect]_vars

\* The rows a filter of the specification selects: every filter that is not
\* null must match.
MatchingProvided(s, project, feature, status) ==
    {r \in s : /\ project # None => r.project_name = project
               /\ feature # None => r.feature_name = feature
               /\ status # None => r.status = status}

LastMatching == MatchingProvided(store, last.project, last.feature, last.status)

\* C5: find returns a row matching every filter given, of maximal created_at
\* among the matching rows, and not-found exactly when no row matches; for
\* every filter value, the empty string included.
C5_FindEveryFilter ==
    last.op = "find_container" =>
        /\ last.ret = Nothing <=> LastMatching = {}
        /\ last.ret # Nothing =>
              /\ last.ret[1] \in LastMatching
              /\ \A r \in LastMatching : r.created_at <= last.ret[1].created_at

\* C6: list without a limit returns exactly the rows matching every filter
\* given, newest first.
C6_ListExact ==
    (last.op = "list_containers" /\ last.limit = Nothing) =>
        /\ {last.ret[i] : i \in 1..Len(last.ret)} = LastMatching
        /\ Len(last.ret) = Cardinality(LastMatching)
        /\ \A i, j \in 1..Len(last.ret) :
              i < j => last.ret[i].created_at >= last.ret[j].created_at

\* C7: list with limit n >= 0 returns min(n, number of matching rows) rows, a
\* prefix of the newest-first list the same call gives without a limit; n = 0
\* included.
C7_ListLimit ==
    (last.op = "list_containers" /\ last.limit # Nothing) =>
        \E q \in list_containers(store, last.project, last.feature, last.status, Nothing) :
            /\ Len(last.ret) = Min(last.limit[1], Len(q))
            /\ last.ret = SubSeq(q, 1, Len(last.ret))

RemoveEffect ==
    last'.op = "remove_container" =>
        /\ last'.ret = HasId(store, last'.container_id)
        /\ ~HasId(store', last'.container_id)
        /\ \A r \in store : r.container_id # last'.container_id => r \in store'
        /\ store' \subseteq store
        /\ (last.op = "remove_container" /\ last.container_id = last'.container_id) => ~last'.ret

UpdateStatusEffect ==
    last'.op = "update_container_status" =>
        /\ last'.ret = HasId(store, last'.container_id)
        /\ \A r \in store : r.container_id # last'.container_id => r \in store'
        /\ \A r \in store : r.container_id = last'.container_id =>
              [r EXCEPT !.status = last'.status, !.last_accessed = now] \in store'
        /\ Cardinality(store') = Cardinality(store)

Expired(r, days) == r.last_accessed < now - days

PurgeEffect ==
    last'.op = "cleanup_old_records" =>
        /\ store' \subseteq store
        /\ \A r \in store :
              r \in store' <=> (r.status = "running" \/ ~Expired(r, last'.days))
        /\ last'.ret = Cardinality(store \ store')

IdsOf(s) == {r.container_id : r \in s}

CleanEffect ==
    (last'.op = "clean" /\ last'.exit = 0 /\ (last'.args.force \/ last'.args.confirm)) =>
        LET a == last'.args
            InScope(r) == a.all \/ r.project_name = a.project
            Synced(r) == get_container_status(runtime, r.container_id,
                                              r.container_id \in a.syncErrors)
            gone == {r \in store : /\ InScope(r)
                                   /\ Synced(r) \in {"stopped", "exited", "not_found", "error"}}
        IN  /\ last'.removed = IdsOf(gone)
            /\ IdsOf(store') = IdsOf(store) \ IdsOf(gone)
            /\ \A r \in store : ~InScope(r) => r \in store'
            /\ \A r \in store \ gone : InScope(r) =>
                  get_container(store', r.container_id)[1].status = Synced(r)

CleanAsks ==
    last'.op = "clean" =>
        /\ (~last'.args.force /\ (IdsOf(store') # IdsOf(store) \/ runtime' # runtime))
               => (last'.asked /\ last'.args.confirm)
        /\ (last'.asked /\ ~last'.args.confirm) =>
               /\ IdsOf(store') = IdsOf(store)
               /\ runtime' = runtime
               /\ last'.removed = {}
               /\ last'.exit = 0

\* C12: clean without --force removes no row and no container unless the user
\* was shown the set and said yes; when the user says no, nothing is removed
\* and the exit code is 0.
C12_CleanConfirm == [][CleanAsks]_vars

\* The user declined the removal of an exited container, whose row is kept.
C12_Witness ==
    /\ last.op = "clean"
    /\ last.asked
    /\ ~last.args.confirm
    /\ last.exit = 0
    /\ \E r \in store : /\ r.status = "exited"
                        /\ runtime[r.container_id] # Nothing
                        /\ (last.args.all \/ r.project_name = last.args.project)

\* C13: validate_name accepts exactly the non-empty names whose every
\* character is in [A-Za-z0-9_-].
C13_ValidateName ==
    last.op = "validate_name" =>
        (last.ret <=> (/\ last.name # << >>
                       /\ \A i \in 1..Len(last.name) : last.name[i] \in NameClass))

\* C15: a call of generate_container_name returns a name other than the one
\* the call before it returned, also for the same project and feature within
\* the same second.
C15_DistinctNames ==
    (last.op = "generate_container_name" /\ last.prev # Nothing) =>
        last.ret # last.prev[1]

\* The pipeline of the specification, step by step.
PipeReplace(s) ==
    [i \in 1..Len(s) |->
        IF s[i] \in UpperLetters \cup LowerLetters \cup Digits \cup {"_", "-"}
        THEN s[i] ELSE "-"]

\* Runs of "_" and "-" become one "-": of each run, its first place stays.
RECURSIVE PipeCollapseFrom(_, _)
PipeCollapseFrom(s, i) ==
    IF i > Len(s)
    THEN << >>
    ELSE IF s[i] \notin {"_", "-"}
    THEN <<s[i]>> \o PipeCollapseFrom(s, i + 1)
    ELSE IF i > 1 /\ s[i - 1] \in {"_", "-"}
    THEN PipeCollapseFrom(s, i + 1)
    ELSE <<"-">> \o PipeCollapseFrom(s, i + 1)

PipeStrip(s) ==
    LET kept == {i \in 1..Len(s) : s[i] # "-"}
    IN  IF kept = {}
        THEN << >>
        ELSE SubSeq(s, CHOOSE i \in kept : \A j \in kept : i <= j,
                       CHOOSE i \in kept : \A j \in kept : j <= i)

PipeLower(s) == [i \in 1..Len(s) |-> IF s[i] \in UpperLetters THEN Lower(s[i]) ELSE s[i]]

PipeTruncate(s) == SubSeq(s, 1, Min(Len(s), 30))

Pipeline(s) == PipeTruncate(PipeLower(PipeStrip(PipeCollapseFrom(PipeReplace(s), 1))))

\* C16: sanitize_name gives what the pipeline gives (replace, collapse, strip,
\* lower-case, truncate to 30), and the name generated for "My Project" and
\* "Feature #1" starts with sandbox-claude-my-project-feature-1-.
C16_Sanitize ==
    /\ last.op = "sanitize_name" => last.ret = Pipeline(last.name)
    /\ (last.op = "generate_container_name" /\ last.project = "My Project"
            /\ last.feature = "Feature #1")
           => \E t \in 0..MaxTime, suffix \in SuffixesOf(last.project) :
                 last.ret = "sandbox-claude-my-project-feature-1-" \o ToString(t)
                                \o "-" \o suffix

\* sanitize_name cut a name with capitals, a space and an underscore to 30
\* characters.
C16_Witness ==
    /\ last.op = "sanitize_name"
    /\ Len(last.name) > 30
    /\ Len(last.ret) = 30
    /\ last.name[1] = "A"
    /\ \E i \in 1..Len(last.name) : last.name[i] \in {" ", "_"}

NewRejects ==
    (last'.op = "new" /\ (\/ ~validate_name(Chars(last'.project))
                          \/ ~validate_name(Chars(last'.feature)))) =>
        /\ last'.exit = 1
        /\ last'.calls = {}
        /\ store' = store
        /\ runtime' = runtime

\* C14: when validate_name rejects the project or the feature name, new exits
\* with code 1 and has made no call on the registry or on the runtime: no
\* lookup, no image check, no mounts, no container, no row.
C14_NewRejects == [][NewRejects]_vars

\* new refused the project name "p 1" while the registry held a row.
C14_Witness ==
    /\ last.op = "new"
    /\ last.project = "p 1"
    /\ last.exit = 1
    /\ store # {}

NewRowAfterCreate ==
    last'.op = "new" =>
        /\ ("create_container" \in last'.calls /\ last'.created = None) =>
              (last'.exit = 1 /\ store' = store)
        /\ store' # store =>
              /\ last'.created # None
              /\ runtime[last'.created] = Nothing
              /\ runtime'[last'.created] # Nothing
              /\ IdsOf(store') \ IdsOf(store) = {last'.created}

\* C17: new adds a row only for a container the runtime created: when
\* create_container returns no handle, new exits with code 1 and the rows are
\* as they were.
C17_NewCreateFails == [][NewRowAfterCreate]_vars

\* new asked for a container, got none, and exited with code 1 beside an
\* earlier row.
C17_Witness ==
    /\ last.op = "new"
    /\ "create_container" \in last.calls
    /\ last.created = None
    /\ last.exit = 1
    /\ store # {}

\* C18: when new reports success for a container it created, the registry
\* holds a row with that container's id.
C18_NewSuccessHasRow ==
    (last.op = "new" /\ last.exit = 0 /\ last.created # None) =>
        HasId(store, last.created)

\* C19: the status of every row is one of created, running, stopped, exited,
\* not_found, error, whatever the runtime reports.
C19_StatusEnumerated ==
    \A r \in store :
        r.status \in {"created", "running", "stopped", "exited", "not_found", "error"}

\* C20: in a listing, a failure of the runtime or of the storage on one row
\* shows as status error on that row (not_found when the container is absent),
\* and every other row is reconciled and displayed.
C20_ListConfined ==
    last.op = "list" =>
        \A i \in 1..Len(last.shown) :
            LET row == last.shown[i]
                id == row.container_id
            IN  /\ id \in last.errors => row.status = "error"
                /\ (id \in last.storageErrors /\ StoredStatus(id) # row.live)
                       => row.status = "error"
                /\ (id \notin last.errors /\ id \notin last.storageErrors) =>
                       /\ runtime[id] = Nothing => row.status = "not_found"
                       /\ runtime[id] # Nothing => row.status = runtime[id][1].status
                       /\ StoredStatus(id) = row.status

TimestampsKept ==
    /\ \A r \in store : \A q \in store' :
          q.container_id = r.container_id =>
              /\ q.created_at = r.created_at
              /\ q.last_accessed >= r.last_accessed
    /\ \A q \in store' :
          ~HasId(store, q.container_id) =>
              /\ q.created_at = q.last_accessed
              /\ q.created_at = now
              /\ q.status = "running"

\* C21: while a row exists its created_at keeps the value of its insertion and
\* its last_accessed never decreases, whatever operations run; a row is
\* inserted with created_at = last_accessed and status running.
C21_Timestamps == [][TimestampsKept]_vars

\* A row was touched after the day of its insertion.
C21_Witness ==
    /\ last.op = "update_last_accessed"
    /\ last.ret = TRUE
    /\ \E r \in store : /\ r.container_id = last.container_id
                        /\ r.created_at < r.last_accessed
                        /\ r.last_accessed = now

\* C22: a failure of the storage during update_container_status,
\* update_last_accessed, remove_container or cleanup_old_records reaches the
\* caller as an error; False (or 0) is returned only when no row matched.
C22_StorageErrors ==
    /\ last.op \in {"update_container_status", "update_last_accessed", "remove_container"}
           => /\ last.failed => last.raised
              /\ (~last.raised /\ last.ret = FALSE) => ~last.failed
    /\ last.op = "cleanup_old_records"
           => /\ last.failed => last.raised
              /\ (~last.raised /\ last.ret = 0) => ~last.failed

ImportEffect ==
    last'.op = "import_sessions" =>
        /\ store \subseteq store'
        /\ last'.ret = Cardinality(store' \ store)
        /\ \A i \in 1..Len(last'.doc) :
              \/ HasId(store', last'.doc[i].container_id)
              \/ HasName(store', last'.doc[i].container_name)

\* C23: import_sessions only adds: every row stored before is unchanged after,
\* every session of the document whose id and name were free is stored, and
\* the returned count is the number of rows the call added, also when a
\* session's metadata is null.
C23_ImportAdditive == [][ImportEffect]_vars

Orphan(s, rt, id) == rt[id] # Nothing /\ ~HasId(s, id)

OrphanCaught ==
    (last.op = "clean" /\ last'.op = "clean") =>
        \A id \in last.removed :
            Orphan(store, runtime, id) => ~Orphan(store', runtime', id)

\* C25: when clean removed a row while the runtime kept its container, the
\* next pass over the statuses (here the sync of the next clean) catches it:
\* afterwards the container is no longer in the runtime and out of the registry.
C25_OrphanCaught == [][OrphanCaught]_vars

CleanWithoutTarget ==
    (last'.op = "clean" /\ ~last'.args.all /\ ~Truthy(last'.args.project)) =>
        /\ last'.exit = 1
        /\ store' = store

\* C29: clean given neither --project nor --all exits with code 1 and leaves
\* the registry as it was: no status, no last_accessed written, no row removed.
C29_CleanWithoutTarget == [][CleanWithoutTarget]_vars

\* The row of id is stored with status not_found.
KeptNotFound(s, id) == \E r \in s : r.container_id = id /\ r.status = "not_found"

ReconcileKeeps ==
    /\ last'.op = "list" =>
          /\ IdsOf(store') = IdsOf(store)
          /\ \A i \in 1..Len(last'.shown) :
                last'.shown[i].live = "not_found"
                    => KeptNotFound(store', last'.shown[i].container_id)
    /\ (last'.op = "clean" /\ last'.removed = {}) =>
          /\ IdsOf(store') = IdsOf(store)
          /\ \A r \in store :
                (/\ last'.args.all \/ ~Truthy(last'.args.project)
                    \/ r.project_name = last'.args.project
                 /\ get_container_status(runtime, r.container_id,
                        r.container_id \in last'.args.syncErrors) = "not_found")
                    => KeptNotFound(store', r.container_id)

RECURSIVE SumOfCounts(_)
SumOfCounts(q) == IF q = << >> THEN 0 ELSE q[1][2] + SumOfCounts(Tail(q))

\* C27: get_statistics gives total equal to the number of rows, running equal
\* to the number of rows with status running, one count per project of the
\* registry, each the number of that project's rows and together summing to
\* total, and a recent list of at most 5 rows of the registry in descending
\* order of last_accessed.
C27_Statistics ==
    last.op = "get_statistics" =>
        LET st == last.ret IN
        /\ st.total = Cardinality(store)
        /\ st.running = Cardinality({r \in store : r.status = "running"})
        /\ {st.by_project[i][1] : i \in 1..Len(st.by_project)}
               = {r.project_name : r \in store}
        /\ \A i \in 1..Len(st.by_project) :
              st.by_project[i][2]
                  = Cardinality({r \in store : r.project_name = st.by_project[i][1]})
        /\ \A i, j \in 1..Len(st.by_project) :
              i # j => st.by_project[i][1] # st.by_project[j][1]
        /\ SumOfCounts(st.by_project) = st.total
        /\ Len(st.recent) <= 5
        /\ \A i \in 1..Len(st.recent) :
              \E r \in store : st.recent[i] = <<r.container_name, r.last_accessed>>
        /\ \A i, j \in 1..Len(st.recent) : i < j => st.recent[i][2] >= st.recent[j][2]

\* Statistics of a registry of more than five rows, of several projects, some
\* rows not running, accessed at different times: five rows are listed.
C27_Witness ==
    /\ last.op = "get_statistics"
    /\ Cardinality(store) > 5
    /\ Len(last.ret.recent) = 5
    /\ last.ret.recent[1][2] > last.ret.recent[5][2]
    /\ last.ret.running > 0
    /\ last.ret.running < last.ret.total
    /\ Len(last.ret.by_project) > 1

\* Row q carries what session x of a document says.
SameSession(q, x) ==
    /\ q.container_id = x.container_id
    /\ q.container_name = x.container_name
    /\ q.project_name = x.project_name
    /\ q.feature_name = x.feature_name
    /\ q.status = x.status
    /\ q.working_dir = x.working_dir
    /\ q.docker_image = x.docker_image
    /\ q.metadata = x.metadata

\* C28: importing an exported document into an empty registry gives one row
\* per exported row, of the same id, name, project, feature, status, working
\* directory, image and metadata, and import_sessions returns the number of
\* exported rows.
C28_RoundTrip ==
    last.op = "import_exported" =>
        /\ last.ret = Len(last.doc)
        /\ Cardinality(last.into) = Len(last.doc)
        /\ \A i \in 1..Len(last.doc) : \E q \in last.into : SameSession(q, last.doc[i])

\* C30: whatever the name, sanitize_name gives only lower-case letters, digits
\* and '-', at most 30 characters, no two '-' in a row and no '-' at either
\* end, also when it cut the name; sanitizing the result gives it again.
C30_SanitizeShape ==
    last.op = "sanitize_name" =>
        /\ \A i \in 1..Len(last.ret) : last.ret[i] \in LowerLetters \cup Digits \cup {"-"}
        /\ Len(last.ret) <= 30
        /\ \A i \in 1..(Len(last.ret) - 1) : ~(last.ret[i] = "-" /\ last.ret[i + 1] = "-")
        /\ last.ret # << >> => (last.ret[1] # "-" /\ last.ret[Len(last.ret)] # "-")
        /\ sanitize_name(last.ret) = last.ret

====
